---- MODULE Spec2Model ----
(***************************************************************************)
(* Timing control primitives of utils.js: debounce (timer variant),        *)
(* debounce2 (promise-aware, coalescing) and retryWithBackoff.             *)
(*                                                                         *)
(* The host is modelled as a JavaScript event loop: a set of scheduled     *)
(* timers (setTimeout / clearTimeout), a virtual clock `now`, and promise  *)
(* reaction jobs that run before the clock advances or a timer fires.      *)
(***************************************************************************)
EXTENDS Integers, Sequences, FiniteSets, TLC

\* ---------------------------------------------------------------- bounds
MaxTime == 4        \* the virtual clock runs over 0..MaxTime
MaxCalls == 3       \* calls made to one wrapped callable / trigger
MaxMs == 2          \* the delay `ms` ranges over 1..MaxMs

\* Arguments passed to the wrapped callable.  debounce2 never inspects them
\* (it only forwards them to func), so two distinct values are enough to tell
\* one call's arguments from another's.
Args == {1, 2}

\* JavaScript null, for variables that hold a handle or a future
null == 0

VARIABLES
  now,              \* virtual clock of the event loop
  timers,           \* scheduled timers of the host: [id, due, owner, payload]
  nextTimer,        \* next handle returned by setTimeout
  \* --- debounce2 instance state (closure variables, utils.js:50-54)
  ms,               \* the `ms` parameter of the instance
  timerId,
  inflightPromise,
  inflightResolver,
  \* --- promises created by debounce2 and observations of its behaviour
  promiseState,     \* promiseState[p]: state of the p-th promise created
  calls,            \* one record per call of the wrapped callable
  invocations,      \* one record per invocation of func
  firings,          \* number of debounce2 timer callbacks run so far
  \* --- debounce instance state (utils.js:6-7) and observations
  debounceMs,       \* the `ms` parameter of the debounce instance
  debounceTimer,
  triggers,         \* one record per call of the trigger
  executed,         \* one record per callback run by the host
  \* --- one call of retryWithBackoff (utils.js:109-147)
  options,          \* maxRetries, initialDelay, maxDelay, jitterFactor
  attempt,
  lastError,
  pc,               \* where the async function is
  sleeping,         \* delay of the pending timer of sleep(), or -1
  settled,          \* value the returned promise settled with
  thrownAt,         \* source line of the throw that rejected the call, or 0
  invoked,          \* number of invocations of action
  outcomes,         \* one record per settled invocation of action
  delays            \* the delays awaited, in order

d2vars == <<ms, timerId, inflightPromise, inflightResolver, promiseState,
            calls, invocations, firings>>
dvars == <<debounceMs, debounceTimer, triggers, executed>>
rvars == <<options, attempt, lastError, pc, sleeping, settled, thrownAt,
           invoked, outcomes, delays>>
hostvars == <<now, timers, nextTimer>>

\* ------------------------------------------------------------ host timers

\* mutant: clearTimeout cancels nothing
ClearTimeout_NoCancel(ts, id) == ts

\* mutant: clearTimeout cancels every timer of the host
ClearTimeout_All(ts, id) == {}

\* clearTimeout(id): cancels the timer with that handle; a no-op for null,
\* for a handle that already fired and for a handle already cancelled.
ClearTimeout(ts, id) == {t \in ts : t.id # id}

\* mutant: the delay is ignored
Due_Immediately(clock, delay) == clock

\* the time at which a timer set now for `delay` runs
Due(clock, delay) == clock + delay

\* setTimeout(callback, delay): the callback is identified by owner+payload
SetTimeout(ts, id, clock, delay, owner, payload) ==
  ts \cup {[id |-> id, due |-> Due(clock, delay), owner |-> owner,
            payload |-> payload]}

\* ---------------------------------------------------------------- promises
Pending == [state |-> "pending", value |-> 0]

\* resolve(value) of a promise: settles it once; later calls are no-ops
Resolve(ps, p, v) ==
  IF ps[p].state = "pending"
    THEN [ps EXCEPT ![p] = [state |-> "fulfilled", value |-> v]]
    ELSE ps

\* promise reaction jobs (microtasks) not yet run
ReactionQueued == \E i \in DOMAIN invocations : invocations[i].phase = "reaction"

\* -------------------------------------------------------------- debounce2

\* mutant: every call creates a promise
NeedsNewPromise_Always(p) == TRUE

\* line 59: a new promise is created only when none is in flight
NeedsNewPromise(p) == p = null

\* mutant: .then(resolver, resolver)
ThenHandler_Both(settlement) == "resolver"

\* line 73: .then(resolver) registers a fulfilment handler only; a rejection
\* of Promise.resolve(func(...)) reaches no handler.
ThenHandler(settlement) ==
  IF settlement = "fulfilled" THEN "resolver" ELSE "none"

\* mutant: the timer callback does not reset the instance state
AfterFiring_Kept(p) == p

\* lines 69-70: the timer callback resets inflightPromise and
\* inflightResolver before it calls func.
AfterFiring(p) == null

\* The wrapped callable returned by debounce2 (lines 56-78).
Debounced(args) ==
  /\ Len(calls) < MaxCalls
  /\ LET cleared == ClearTimeout(timers, timerId)
         fresh == NeedsNewPromise(inflightPromise)
         p == IF fresh THEN Len(promiseState) + 1 ELSE inflightPromise
     IN /\ promiseState' = IF fresh THEN Append(promiseState, Pending)
                                    ELSE promiseState
        /\ inflightPromise' = p
        /\ inflightResolver' = IF fresh THEN p ELSE inflightResolver
        /\ timers' = SetTimeout(cleared, nextTimer, now, ms, "debounce2", args)
        /\ timerId' = nextTimer
        /\ nextTimer' = nextTimer + 1
        /\ calls' = Append(calls, [at |-> now, args |-> args, fut |-> p,
                                   burst |-> firings])
  /\ UNCHANGED <<now, ms, invocations, firings, dvars, rvars>>

\* what func does when called: return a value, throw, or return a promise
FuncBehaviours == {"value", "throw", "promise"}

PhaseAfterCall(b) ==
  CASE b = "value" -> "reaction"     \* Promise.resolve(v).then(resolver) queued
    [] b = "throw" -> "threw"        \* exception leaves the timer callback
    [] b = "promise" -> "running"    \* func's promise still pending

\* The timer callback of debounce2 (lines 65-75).
TimerFires(t) ==
  /\ t \in timers
  /\ t.owner = "debounce2"
  /\ t.due <= now
  /\ ~ReactionQueued
  /\ timers' = timers \ {t}
  /\ LET resolver == inflightResolver
     IN /\ inflightPromise' = AfterFiring(inflightPromise)
        /\ inflightResolver' = AfterFiring(inflightResolver)
        /\ firings' = firings + 1
        /\ IF resolver # null
             THEN \E b \in FuncBehaviours :
                    invocations' = Append(invocations,
                      [at |-> now, args |-> t.payload, resolver |-> resolver,
                       burst |-> firings, failed |-> (b = "throw"),
                       phase |-> PhaseAfterCall(b)])
             ELSE invocations' = invocations
  /\ UNCHANGED <<now, nextTimer, ms, timerId, promiseState, calls, dvars,
                 rvars>>

\* The promise returned by func settles (environment step).
FuncSettles(i, settlement) ==
  /\ i \in DOMAIN invocations
  /\ invocations[i].phase = "running"
  /\ invocations' = [invocations EXCEPT
       ![i].failed = (settlement = "rejected"),
       ![i].phase = IF ThenHandler(settlement) = "resolver"
                      THEN "reaction" ELSE "rejected"]
  /\ UNCHANGED <<hostvars, ms, timerId, inflightPromise, inflightResolver,
                 promiseState, calls, firings, dvars, rvars>>

\* mutant: the reaction calls inflightResolver, read when it runs
ResolverUsed_Current(captured, current) == current

\* mutant: the reaction resolves only if its session is still the current one
ResolverUsed_IfCurrent(captured, current) ==
  IF captured = current THEN captured ELSE null

\* lines 66 and 73: the handler passed to .then is the local `resolver`,
\* captured when the timer callback started, not the instance variable
ResolverUsed(captured, current) == captured

\* The reaction job of .then(resolver) runs: resolver(result) (line 73).
RunReaction(i) ==
  /\ i \in DOMAIN invocations
  /\ invocations[i].phase = "reaction"
  /\ LET resolver == ResolverUsed(invocations[i].resolver, inflightResolver)
     IN promiseState' = IF resolver # null
                          THEN Resolve(promiseState, resolver, i)
                          ELSE promiseState
  /\ invocations' = [invocations EXCEPT ![i].phase = "done"]
  /\ UNCHANGED <<hostvars, ms, timerId, inflightPromise, inflightResolver,
                 calls, firings, dvars, rvars>>

\* Time passes: no timer is overdue and no reaction job is waiting.
Tick ==
  /\ now < MaxTime
  /\ \A t \in timers : t.due > now
  /\ ~ReactionQueued
  /\ now' = now + 1
  /\ UNCHANGED <<timers, nextTimer, d2vars, dvars, rvars>>

vars == <<hostvars, d2vars, dvars, rvars>>

HostInit ==
  /\ now = 0
  /\ timers = {}
  /\ nextTimer = 1

Debounce2Idle ==
  /\ timerId = null
  /\ inflightPromise = null
  /\ inflightResolver = null
  /\ promiseState = <<>>
  /\ calls = <<>>
  /\ invocations = <<>>
  /\ firings = 0

\* a debounce instance that was never created / never triggered
DebounceIdle ==
  /\ debounceTimer = null
  /\ triggers = <<>>
  /\ executed = <<>>

\* no call of retryWithBackoff
RetryIdle ==
  /\ attempt = 0
  /\ lastError = "null"
  /\ pc = "idle"
  /\ sleeping = -1
  /\ settled = "none"
  /\ thrownAt = 0
  /\ invoked = 0
  /\ outcomes = <<>>
  /\ delays = <<>>

NoRetryCall ==
  /\ options = [maxRetries |-> 0, initialDelay |-> 0, maxDelay |-> 0,
                jitterFactor |-> 0]
  /\ RetryIdle

InitDebounce2 ==
  /\ HostInit
  /\ ms \in 1..MaxMs
  /\ Debounce2Idle
  /\ debounceMs = 1 /\ DebounceIdle
  /\ NoRetryCall

NextDebounce2 ==
  \/ \E a \in Args : Debounced(a)
  \/ \E t \in timers : TimerFires(t)
  \/ \E i \in DOMAIN invocations : \E s \in {"fulfilled", "rejected"} : FuncSettles(i, s)
  \/ \E i \in DOMAIN invocations : RunReaction(i)
  \/ Tick

SpecDebounce2 == InitDebounce2 /\ [][NextDebounce2]_vars

\* ===================================================== debounce2: claims

Max(S) == CHOOSE x \in S : \A y \in S : y <= x

\* a burst: the calls made between two consecutive timer firings
CallsOfBurst(b) == {i \in DOMAIN calls : calls[i].burst = b}
InvocationsOfBurst(b) == {k \in DOMAIN invocations : invocations[k].burst = b}
Running == {k \in DOMAIN invocations : invocations[k].phase = "running"}
Finished(k) == invocations[k].phase \in {"done", "threw", "rejected"}

\* C1: every burst of calls whose timer has fired caused exactly one
\* invocation of func, with the arguments of the last call of the burst, made
\* ms after that last call; the burst still waiting has caused none.
C1_OneInvocationPerBurst ==
  \A b \in 0..firings :
    IF b < firings
      THEN /\ CallsOfBurst(b) # {}
           /\ Cardinality(InvocationsOfBurst(b)) = 1
           /\ \A k \in InvocationsOfBurst(b) :
                LET last == calls[Max(CallsOfBurst(b))]
                IN /\ invocations[k].args = last.args
                   /\ invocations[k].at = last.at + ms
      ELSE InvocationsOfBurst(b) = {}

\* the example scaled down: calls with 1, 1, 2 at times 0, 1, 2 and ms = 2
\* give one invocation, func(2), at time 4
C1_Witness ==
  /\ ms = 2
  /\ Len(calls) = 3
  /\ \A i \in 1..3 : calls[i].at = i - 1
  /\ calls[1].args = 1 /\ calls[2].args = 1 /\ calls[3].args = 2
  /\ Len(invocations) = 1
  /\ invocations[1].args = 2
  /\ invocations[1].at = 4

\* C2: once the invocation of func of a session is over, whatever its
\* outcome, the future of the session is settled with that outcome.
C2_FutureSettlesWithOutcome ==
  \A k \in DOMAIN invocations :
    Finished(k) =>
      LET p == promiseState[invocations[k].resolver]
      IN IF invocations[k].failed
           THEN p.state = "rejected"
           ELSE p.state = "fulfilled" /\ p.value = k

\* C3: two calls return the same future exactly when they belong to the same
\* burst, and one future is created per burst.
C3_SameFutureWithinSession ==
  /\ \A i, j \in DOMAIN calls :
       (calls[i].burst = calls[j].burst) <=> (calls[i].fut = calls[j].fut)
  /\ Len(promiseState) = Cardinality({calls[i].burst : i \in DOMAIN calls})

C3_Witness ==
  /\ Len(calls) = 3
  /\ calls[1].fut = calls[2].fut
  /\ calls[3].fut # calls[2].fut
  /\ calls[1].at < calls[2].at

\* C4 (as claimed): at most one invocation of func is in progress.
C4_NeverTwoInProgress == Cardinality(Running) <= 1

\* C4 (amended): successive invocations of func start at least ms apart, so
\* an invocation still in progress when a later one starts has been running
\* for at least ms.
C4_InvocationsStartMsApart ==
  \A i, j \in DOMAIN invocations :
    i < j => invocations[j].at >= invocations[i].at + ms

C4_Witness ==
  /\ Cardinality(Running) = 2
  /\ ms = 2

\* C5: a failed invocation of func (synchronous throw or rejected promise)
\* leaves the future of its session pending, and no future is ever rejected.
C5_FailureLeavesFuturePending ==
  /\ \A k \in DOMAIN invocations :
       invocations[k].failed =>
         promiseState[invocations[k].resolver].state = "pending"
  /\ \A p \in DOMAIN promiseState : promiseState[p].state # "rejected"

C5_Witness ==
  /\ \E k \in DOMAIN invocations :
       invocations[k].failed /\ invocations[k].phase = "rejected"
                             /\ now > invocations[k].at
  /\ \E k \in DOMAIN invocations :
       invocations[k].failed /\ invocations[k].phase = "threw"

\* call i was followed by more than ms without a call
FollowedBySilence(i) ==
  \/ i = Len(calls) /\ now > calls[i].at + ms
  \/ i < Len(calls) /\ calls[i + 1].at > calls[i].at + ms

ServedBy(i) ==
  {k \in DOMAIN invocations :
     /\ invocations[k].args = calls[i].args
     /\ invocations[k].resolver = calls[i].fut
     /\ invocations[k].at = calls[i].at + ms}

\* C6: a call followed by more than ms of silence gets an invocation of func
\* of its own, with its arguments, and every later call gets another future.
C6_SeparatedCallsAreIndependent ==
  \A i \in DOMAIN calls :
    FollowedBySilence(i) =>
      /\ Cardinality(ServedBy(i)) = 1
      /\ \A j \in DOMAIN calls : i < j => calls[j].fut # calls[i].fut
      /\ \A j \in DOMAIN calls :
           (i < j /\ FollowedBySilence(j)) => ServedBy(i) \cap ServedBy(j) = {}

C6_Witness ==
  /\ Len(calls) = 2
  /\ calls[1].args # calls[2].args
  /\ calls[2].at > calls[1].at + ms
  /\ FollowedBySilence(2)
  /\ Len(invocations) = 2

\* ================================================ debounce (timer variant)

\* The trigger returned by debounce(ms) (lines 8-11).  The callback passed by
\* the n-th call is named n: every call passes a closure of its own, as in
\* the example of lines 14-18.
Trigger(f) ==
  /\ Len(triggers) < MaxCalls
  /\ f = Len(triggers) + 1
  /\ timers' = SetTimeout(ClearTimeout(timers, debounceTimer), nextTimer, now,
                          debounceMs, "debounce", f)
  /\ debounceTimer' = nextTimer
  /\ nextTimer' = nextTimer + 1
  /\ triggers' = Append(triggers, [at |-> now, f |-> f])
  /\ UNCHANGED <<now, debounceMs, executed, d2vars, rvars>>

\* The host runs a callback scheduled by the trigger.
CallbackRuns(t) ==
  /\ t \in timers
  /\ t.owner = "debounce"
  /\ t.due <= now
  /\ timers' = timers \ {t}
  /\ executed' = Append(executed, [at |-> now, f |-> t.payload])
  /\ UNCHANGED <<now, nextTimer, debounceMs, debounceTimer, triggers, d2vars,
                 rvars>>

InitDebounce ==
  /\ HostInit
  /\ debounceMs \in 1..MaxMs
  /\ DebounceIdle
  /\ ms = 1 /\ Debounce2Idle
  /\ NoRetryCall

NextDebounce ==
  \/ \E f \in 1..MaxCalls : Trigger(f)
  \/ \E t \in timers : CallbackRuns(t)
  \/ Tick

SpecDebounce == InitDebounce /\ [][NextDebounce]_vars

\* every trigger call so far came strictly less than ms after the previous one
RapidTriggers ==
  \A i \in 1..(Len(triggers) - 1) :
    triggers[i + 1].at < triggers[i].at + debounceMs

\* C7: while every trigger call came less than ms after the previous one, no
\* callback but the last call's has run, that one runs at most once and
\* exactly ms after the last call, and it has run once that time has passed.
C7_OnlyLastCallbackRuns ==
  (triggers # <<>> /\ RapidTriggers) =>
    LET n == Len(triggers)
        run == [at |-> triggers[n].at + debounceMs, f |-> n]
    IN /\ executed \in {<<>>, <<run>>}
       /\ (now > run.at => executed = <<run>>)

C7_Witness ==
  /\ Len(triggers) = 3
  /\ RapidTriggers
  /\ triggers[1].at < triggers[2].at
  /\ triggers[2].at < triggers[3].at
  /\ executed = <<[at |-> triggers[3].at + debounceMs, f |-> 3]>>

\* ======================================================== retryWithBackoff

MaxRetries == 2     \* maxRetries ranges over -1..MaxRetries

\* Values an action can throw or reject with: two Error objects, a non-Error
\* value (a string), null and undefined.
ThrownValues == {"ErrorA", "ErrorB", "a string", "null", "undefined"}
\* Values an action can return or fulfil with.
Results == {"ok", "ok2"}

\* jitterFactor and Math.random() are kept in hundredths; delays passed to
\* sleep are kept in 1/10000 ms so that the arithmetic of lines 133-139 is
\* exact.
JitterFactors == {0, 30, 150}
Randoms == {0, 50, 99}            \* Math.random() in [0, 1)
InitialDelays == {100}
MaxDelays == {150, 10000}

Min2(a, b) == IF a < b THEN a ELSE b
Max2(a, b) == IF a > b THEN a ELSE b

\* line 133: Math.min(initialDelay * 2 ** attempt, maxDelay)
BackoffDelay(o, a) == Min2(o.initialDelay * 2 ^ a, o.maxDelay)

\* line 136: delay * jitterFactor * (Math.random() - 0.5) * 2, in 1/10000 ms
Jitter(delay, jitterFactor, random) == delay * jitterFactor * (2 * random - 100)

\* mutant: the delay is not clamped at zero
FinalDelay_NoClamp(o, a, random) ==
  LET delay == BackoffDelay(o, a)
  IN delay * 10000 + Jitter(delay, o.jitterFactor, random)

\* line 139: Math.max(0, delay + jitter), in 1/10000 ms
FinalDelay(o, a, random) ==
  LET delay == BackoffDelay(o, a)
  IN Max2(0, delay * 10000 + Jitter(delay, o.jitterFactor, random))

\* mutant: the loop bound is one too large
LoopCondition_OneMore(a, maxRetries) == a < maxRetries + 2

\* line 119: attempt < _total, with _total = maxRetries + 1
LoopCondition(a, maxRetries) == a < maxRetries + 1

\* line 125: error.message can be read of every value but null and undefined
MessageReadable(error) == error \notin {"null", "undefined"}

\* line 146: lastError || new Error(...)
Truthy(v) == v \notin {"null", "undefined"}

\* mutant: a successful attempt does not return
AfterAttempt_NoReturn(failed, error, a, maxRetries) ==
  CASE ~failed -> "sleep"
    [] failed /\ ~MessageReadable(error) -> "TypeError"
    [] failed /\ MessageReadable(error) /\ a = maxRetries -> "throw"
    [] OTHER -> "sleep"

\* mutant: the exhaustion check of line 127 is missing
AfterAttempt_NeverThrows(failed, error, a, maxRetries) ==
  CASE ~failed -> "return"
    [] failed /\ ~MessageReadable(error) -> "TypeError"
    [] OTHER -> "sleep"

\* lines 121-130 and 142: what follows the settlement of `await action()`
AfterAttempt(failed, error, a, maxRetries) ==
  CASE ~failed -> "return"                                    \* line 122
    [] failed /\ ~MessageReadable(error) -> "TypeError"       \* line 125
    [] failed /\ MessageReadable(error) /\ a = maxRetries -> "throw"  \* 129
    [] OTHER -> "sleep"                                       \* line 142

\* retryWithBackoff is called (lines 109-118).
RetryCalled ==
  /\ pc = "idle"
  /\ lastError' = "null"
  /\ attempt' = 0
  /\ pc' = "loop"
  /\ UNCHANGED <<options, sleeping, settled, thrownAt, invoked, outcomes,
                 delays, hostvars, d2vars, dvars>>

\* line 119-121: the loop condition holds and action is invoked.
StartAttempt ==
  /\ pc = "loop"
  /\ LoopCondition(attempt, options.maxRetries)
  /\ pc' = "action"
  /\ invoked' = invoked + 1
  /\ UNCHANGED <<options, attempt, lastError, sleeping, settled, thrownAt,
                 outcomes, delays, hostvars, d2vars, dvars>>

\* lines 121-142: `await action()` settles, with a result or with a failure,
\* and the function runs up to its next suspension or to its end.
ActionSettles(failed, v, random) ==
  /\ pc = "action"
  /\ outcomes' = Append(outcomes, [attempt |-> attempt, failed |-> failed,
                                   value |-> v])
  /\ lastError' = IF failed THEN v ELSE lastError            \* line 124
  /\ LET then == AfterAttempt(failed, v, attempt, options.maxRetries)
     IN CASE then = "return" ->
               /\ pc' = "fulfilled"
               /\ settled' = v
               /\ UNCHANGED <<sleeping, delays, thrownAt>>
          [] then = "TypeError" ->
               /\ pc' = "rejected"
               /\ settled' = "TypeError"
               /\ thrownAt' = 125
               /\ UNCHANGED <<sleeping, delays>>
          [] then = "throw" ->
               /\ pc' = "rejected"
               /\ settled' = lastError'
               /\ thrownAt' = 129
               /\ UNCHANGED <<sleeping, delays>>
          [] then = "sleep" ->
               /\ pc' = "sleep"
               /\ sleeping' = FinalDelay(options, attempt, random)
               /\ delays' = Append(delays, sleeping')
               /\ UNCHANGED <<settled, thrownAt>>
  /\ UNCHANGED <<options, attempt, invoked, hostvars, d2vars, dvars>>

\* The timer set by sleep(finalDelay) fires (lines 664-666): its callback
\* resolves the promise that retryWithBackoff awaits.
SleepTimerFires ==
  /\ sleeping >= 0
  /\ sleeping' = -1
  /\ UNCHANGED <<options, attempt, lastError, pc, settled, thrownAt, invoked,
                 outcomes, delays, hostvars, d2vars, dvars>>

\* mutant: setTimeout(resolve(e), ms): the promise is resolved at once
SleepResolved_AtOnce(pendingDelay) == TRUE

\* lines 663-667: the promise of sleep() is resolved by the timer callback,
\* so it is resolved once no timer of sleep() is pending
SleepResolved(pendingDelay) == pendingDelay = -1

\* `await sleep(finalDelay)` (line 142) completes and the loop goes to its
\* next iteration (attempt++).
SleepDone ==
  /\ pc = "sleep"
  /\ SleepResolved(sleeping)
  /\ attempt' = attempt + 1
  /\ pc' = "loop"
  /\ UNCHANGED <<options, lastError, sleeping, settled, thrownAt, invoked,
                 outcomes, delays, hostvars, d2vars, dvars>>

\* line 146: the loop ended without returning or throwing.
AfterLoop ==
  /\ pc = "loop"
  /\ ~LoopCondition(attempt, options.maxRetries)
  /\ pc' = "rejected"
  /\ settled' = IF Truthy(lastError) THEN lastError
                ELSE "Error: Retry failed without capturing an error."
  /\ thrownAt' = 146
  /\ UNCHANGED <<options, attempt, lastError, sleeping, invoked, outcomes,
                 delays, hostvars, d2vars, dvars>>

InitRetry ==
  /\ HostInit
  /\ ms = 1 /\ Debounce2Idle
  /\ debounceMs = 1 /\ DebounceIdle
  /\ options \in [maxRetries : -1..MaxRetries, initialDelay : InitialDelays,
                  maxDelay : MaxDelays, jitterFactor : JitterFactors]
  /\ RetryIdle

NextRetry ==
  \/ RetryCalled
  \/ StartAttempt
  \/ \E v \in Results : ActionSettles(FALSE, v, 0)
  \/ \E v \in ThrownValues : \E r \in Randoms : ActionSettles(TRUE, v, r)
  \/ SleepTimerFires
  \/ SleepDone
  \/ AfterLoop

SpecRetry == InitRetry /\ [][NextRetry]_vars

Failures == {i \in DOMAIN outcomes : outcomes[i].failed}

\* C8: when the call has rejected and every attempt failed (maxRetries >= 0),
\* action was invoked maxRetries + 1 times and the rejection value is the
\* value thrown by the last attempt.
C8_ExhaustionRejectsWithLastError ==
  (pc = "rejected" /\ options.maxRetries >= 0) =>
    /\ invoked = options.maxRetries + 1
    /\ Len(outcomes) = invoked
    /\ settled = outcomes[Len(outcomes)].value

\* C9: an attempt that succeeds is the last invocation of action: the call is
\* fulfilled with its result, k + 1 invocations were made for attempt index k,
\* every earlier attempt failed, and only the k delays between them were
\* awaited.
C9_SuccessShortCircuits ==
  \A i \in DOMAIN outcomes :
    ~outcomes[i].failed =>
      /\ i = Len(outcomes)
      /\ outcomes[i].attempt = i - 1
      /\ i - 1 <= options.maxRetries
      /\ invoked = i
      /\ \A j \in 1..(i - 1) : outcomes[j].failed
      /\ pc = "fulfilled"
      /\ settled = outcomes[i].value
      /\ Len(delays) = i - 1
      /\ sleeping = -1

C9_Witness ==
  /\ pc = "fulfilled"
  /\ Len(outcomes) = 3
  /\ options.maxRetries = 2
  /\ settled = "ok2"

\* C10: a failure at an attempt index below maxRetries, whatever the value
\* thrown, is recorded and followed by a delay; it does not reject the call.
C10_TransientFailureIsRetried ==
  \A i \in Failures :
    i - 1 < options.maxRetries =>
      /\ Len(delays) >= i
      /\ ~(pc = "rejected" /\ i = Len(outcomes))

\* C11: the i-th delay awaited follows attempt index a = i - 1; with
\* d = min(initialDelay * 2^a, maxDelay) it lies between max(0, d - jf*d) and
\* d + jf*d, is never negative, and equals d when jitterFactor is 0.
\* (delays are in 1/10000 ms and jitterFactor in hundredths)
C11_DelayWithinJitterBounds ==
  \A i \in DOMAIN delays :
    LET a == i - 1
        raw == options.initialDelay * 2 ^ a
        d == IF raw < options.maxDelay THEN raw ELSE options.maxDelay
        spread == options.jitterFactor * d * 100
        low == IF d * 10000 - spread > 0 THEN d * 10000 - spread ELSE 0
    IN /\ outcomes[i].attempt = a
       /\ delays[i] >= low
       /\ delays[i] <= d * 10000 + spread
       /\ delays[i] >= 0
       /\ (options.jitterFactor = 0 => delays[i] = d * 10000)

\* initialDelay = 100, jitterFactor = 0: delays of exactly 100 then 200 ms
C11_Witness ==
  /\ options.jitterFactor = 0
  /\ options.initialDelay = 100
  /\ delays = <<1000000, 2000000>>
  /\ invoked = 3

\* the clamp at zero is taken: jitterFactor above 1 and a low random draw
C11_WitnessClamped ==
  \E i \in DOMAIN delays : delays[i] = 0

\* retryWithBackoff with a fair scheduler: an invoked action settles, a timer
\* set by sleep fires and the function continues when it can.
FairSpecRetry == SpecRetry /\ WF_vars(NextRetry)

\* C12: the call settles, and when it has settled action was invoked at most
\* maxRetries + 1 times.
C12_Terminates ==
  <>(pc \in {"fulfilled", "rejected"} /\ invoked <= options.maxRetries + 1)

C12_Witness ==
  /\ pc = "rejected"
  /\ options.maxRetries = 2
  /\ invoked = 3
  /\ Len(delays) = 2

\* ============================== the three primitives in one event loop

MaxJoint == 2       \* calls, triggers and action invocations, all together

\* One debounce2 instance, one debounce instance and one retryWithBackoff
\* call share the host (its clock and its timer table) and interleave.
JointBudget == Len(calls) + Len(triggers) + invoked < MaxJoint

\* options of the retry call in the joint runs: the defaults of lines
\* 113-115, with the largest retry budget explored or with no attempt at all
JointOptions ==
  [maxRetries : {-1, MaxRetries}, initialDelay : {100}, maxDelay : {10000},
   jitterFactor : {30}]

\* debounce delays of the two instances in the joint runs: equal or different
JointDelays == {1, 2}

InitAll ==
  /\ HostInit
  /\ ms \in JointDelays
  /\ Debounce2Idle
  /\ debounceMs \in JointDelays
  /\ DebounceIdle
  /\ options \in JointOptions
  /\ RetryIdle

NextAll ==
  \/ JointBudget /\ \E a \in Args : Debounced(a)
  \/ \E t \in timers : TimerFires(t)
  \/ \E i \in DOMAIN invocations : \E st \in {"fulfilled", "rejected"} : FuncSettles(i, st)
  \/ \E i \in DOMAIN invocations : RunReaction(i)
  \/ JointBudget /\ \E f \in 1..MaxCalls : Trigger(f)
  \/ \E t \in timers : CallbackRuns(t)
  \/ Tick
  \/ RetryCalled
  \/ JointBudget /\ StartAttempt
  \/ ActionSettles(FALSE, "ok", 0)
  \/ \E v \in {"ErrorA", "null"} : ActionSettles(TRUE, v, 50)
  \/ SleepTimerFires
  \/ SleepDone
  \/ AfterLoop

SpecAll == InitAll /\ [][NextAll]_vars

\* the timers of the host that an instance scheduled and that have neither
\* fired nor been cancelled
ScheduledFor(owner) == {t \in timers : t.owner = owner}

\* C13: each debouncer instance has at most one scheduled timer, and it is
\* the one its handle variable names: the timer set by its latest call.
C13_AtMostOneScheduledTimer ==
  /\ Cardinality(ScheduledFor("debounce")) <= 1
  /\ Cardinality(ScheduledFor("debounce2")) <= 1
  /\ \A t \in ScheduledFor("debounce") : t.id = debounceTimer
  /\ \A t \in ScheduledFor("debounce2") : t.id = timerId

\* a second trigger call came while the timer of the first was scheduled
C13_Witness ==
  /\ Len(triggers) = 2
  /\ triggers[2].at > triggers[1].at
  /\ triggers[2].at < triggers[1].at + debounceMs
  /\ Cardinality(ScheduledFor("debounce")) = 1
  /\ executed = <<>>

CallsReturning(p) == {i \in DOMAIN calls : calls[i].fut = p}

\* C15: from the moment the timer callback has called func, the instance no
\* longer holds the future of that invocation, and every call made after the
\* firing returned another future, whatever the state of the invocation.
C15_CallAfterFiringGetsNewFuture ==
  \A k \in DOMAIN invocations :
    /\ inflightPromise # invocations[k].resolver
    /\ inflightResolver # invocations[k].resolver
    /\ \A i \in DOMAIN calls :
         calls[i].burst > invocations[k].burst =>
           calls[i].fut # invocations[k].resolver

\* func's promise is still pending and a call made after the firing holds a
\* future of its own
C15_Witness ==
  \E k \in Running : \E i \in DOMAIN calls :
    /\ calls[i].burst > invocations[k].burst
    /\ calls[i].fut = inflightPromise
    /\ promiseState[invocations[k].resolver].state = "pending"
    /\ now > invocations[k].at

\* C16: a settled future was settled by the one invocation launched by its
\* own session, with that invocation's result, and a future once settled
\* never changes.
C16_SettledOnceByOwnInvocation ==
  [][ \A p \in DOMAIN promiseState :
        /\ (promiseState[p].state # "pending" => promiseState'[p] = promiseState[p])
        /\ (promiseState'[p].state # "pending" =>
              LET k == promiseState'[p].value
              IN /\ promiseState'[p].state = "fulfilled"
                 /\ k \in DOMAIN invocations
                 /\ invocations[k].resolver = p
                 /\ \A j \in DOMAIN invocations :
                      invocations[j].resolver = p => j = k
                 /\ \A i \in CallsReturning(p) :
                      calls[i].burst = invocations[k].burst) ]_vars

\* two sessions overlapped and the later one completed first
C16_Witness ==
  /\ Len(invocations) >= 2
  /\ invocations[1].phase = "running"
  /\ invocations[2].phase = "done"
  /\ promiseState[invocations[2].resolver] = [state |-> "fulfilled", value |-> 2]
  /\ promiseState[invocations[1].resolver].state = "pending"

\* C19: an invocation of func that completed successfully has resolved the
\* future of the session that launched it, whatever calls came after it
\* started; and a call never changes an invocation already made.
C19_StartedInvocationCompletes ==
  [][ /\ (calls' # calls =>
            \A k \in DOMAIN invocations :
              k \in DOMAIN invocations' /\ invocations'[k] = invocations[k])
      /\ \A k \in DOMAIN invocations' :
           invocations'[k].phase = "done" =>
             /\ promiseState'[invocations'[k].resolver]
                  = [state |-> "fulfilled", value |-> k]
             /\ \A i \in CallsReturning(invocations'[k].resolver) :
                  calls'[i].burst = invocations'[k].burst ]_vars

\* a call arrived after the invocation started and started a session of its
\* own; the invocation completed and resolved its session's future
C19_Witness ==
  \E k \in DOMAIN invocations : \E i \in DOMAIN calls :
    /\ invocations[k].phase = "done"
    /\ calls[i].burst > invocations[k].burst
    /\ calls[i].at = invocations[k].at
    /\ now > invocations[k].at
    /\ promiseState[invocations[k].resolver].state = "fulfilled"
    /\ promiseState[calls[i].fut].state = "pending"

\* ===================================== retryWithBackoff: claims (continued)

RetrySettled == pc \in {"fulfilled", "rejected"}

\* C17: at most one invocation of action is in progress; while one is, every
\* earlier attempt has settled with a failure, a delay was awaited after each
\* of them and no timer of sleep is pending.
C17_AttemptsAreSequential ==
  /\ invoked - Len(outcomes) \in {0, 1}
  /\ (invoked - Len(outcomes) = 1) <=> (pc = "action")
  /\ pc = "action" =>
       /\ sleeping = -1
       /\ invoked = attempt + 1
       /\ Len(delays) = attempt
       /\ \A j \in 1..attempt : outcomes[j].failed /\ outcomes[j].attempt = j - 1

C17_Witness ==
  /\ pc = "action"
  /\ attempt = 2
  /\ invoked = 3
  /\ Len(delays) = 2

InStreak ==
  /\ calls # <<>>
  /\ \A i \in 2..Len(calls) : calls[i].at - calls[i - 1].at < ms
  /\ now - calls[Len(calls)].at < ms

\* C21: every call resets the wait and there is no maximum wait.  The timer
\* of the instance is always due ms after the last call; func is invoked
\* only when ms have passed since the last call before it; and for as long
\* as calls keep arriving less than ms apart, however long that lasts, func
\* has not been invoked and the one future returned to all of the callers is
\* pending.
C21_NoMaximumWait ==
  /\ \A t \in ScheduledFor("debounce2") :
       /\ calls # <<>>
       /\ t.due = calls[Len(calls)].at + ms
       /\ t.payload = calls[Len(calls)].args
  /\ \A k \in DOMAIN invocations :
       \A i \in DOMAIN calls :
         calls[i].burst <= invocations[k].burst =>
           calls[i].at + ms <= invocations[k].at
  /\ InStreak =>
       /\ invocations = <<>>
       /\ firings = 0
       /\ ScheduledFor("debounce2") # {}
       /\ \A i \in DOMAIN calls : calls[i].fut = calls[1].fut
       /\ promiseState[calls[1].fut].state = "pending"

\* calls at 0, 1, 2 with ms = 2: at time 3 the first caller has waited
\* longer than ms and func has still not been invoked
C21_Witness ==
  /\ ms = 2
  /\ Len(calls) = 3
  /\ InStreak
  /\ now - calls[1].at > ms
  /\ invocations = <<>>

\* C22: between events the instance holds a future, with its resolver, exactly
\* when a timer is scheduled for it, and that timer is the one timerId names;
\* the future it holds is pending.  Hence every timer callback has read a
\* non-null resolver and invoked func (as many invocations as firings), and
\* every call's future that no invocation was made for yet is the one the
\* instance holds, with its timer scheduled.
C22_FutureIffTimerScheduled ==
  /\ (inflightPromise # null) <=> (inflightResolver # null)
  /\ (inflightPromise # null) <=> (ScheduledFor("debounce2") # {})
  /\ \A t \in ScheduledFor("debounce2") : t.id = timerId
  /\ inflightPromise # null =>
       /\ inflightResolver = inflightPromise
       /\ promiseState[inflightPromise].state = "pending"
  /\ Len(invocations) = firings
  /\ \A i \in DOMAIN calls :
       (\A k \in DOMAIN invocations : invocations[k].resolver # calls[i].fut)
         => /\ inflightPromise = calls[i].fut
            /\ ScheduledFor("debounce2") # {}

\* a session has ended with its invocation of func, the instance was idle,
\* and a second session now holds a new future with its timer scheduled
C22_Witness ==
  /\ firings = 1
  /\ Len(invocations) = 1
  /\ invocations[1].resolver = 1
  /\ inflightPromise = 2
  /\ inflightResolver = 2
  /\ \E t \in ScheduledFor("debounce2") : t.id = timerId /\ t.due > now

====
